---- MODULE Spec2Model ----
(***************************************************************************)
(* Repo Journey Explorer (logic.py, streamlit_app.py): the repository      *)
(* accessor, the commit classifier, the file purpose inferencer, the       *)
(* memory extractor, the commit summarizer and the narrative requester.    *)
(*                                                                         *)
(* Python strings are sequences of one-character strings, so that          *)
(* lower(), strip(), splitlines(), slicing, basename() and replace() are   *)
(* computed character by character as the interpreter computes them.       *)
(***************************************************************************)
EXTENDS Integers, Sequences

VARIABLES
    message, label,                                   \* classify_importance
    history, max_commits, top_files, memory, xpc,     \* extract_commit_memory
    max_tokens_per_commit, summarized, sum_pc,        \* summarize_commits
    api_key, max_recent, spc, recent_memory, older_memory, summarized_older,
    user_text, service_calls, story,                  \* generate_story
    pc, loc, local_path, handle, cache, calls,        \* get_repo
    seen_at_call, clone_started, clone_failed, clone_done, overlapped, log

classifyVars == <<message, label>>
extractVars == <<history, max_commits, top_files, xpc>>
summaryVars == <<max_tokens_per_commit, summarized, sum_pc>>
storyVars == <<api_key, max_recent, spc, recent_memory, older_memory,
               summarized_older, user_text, service_calls, story>>
repoVars == <<pc, loc, local_path, handle, cache, calls, seen_at_call,
              clone_started, clone_failed, clone_done, overlapped, log>>
vars == <<classifyVars, extractVars, memory, summaryVars, storyVars, repoVars>>

\* what generate_story leaves alone
StoryFrame == UNCHANGED <<memory, classifyVars, extractVars, summaryVars, repoVars>>

\* what get_repo leaves alone
RepoFrame == UNCHANGED <<memory, classifyVars, extractVars, summaryVars, storyVars>>

-----------------------------------------------------------------------------
(* Bounds of the model.                                                    *)

\* words concatenated into one commit message given to the classifier
MaxWords == 3
\* commits in a repository history
MaxHistory == 3
\* largest max_commits argument
MaxCommitsArg == 4
\* largest top_files argument
MaxTopFiles == 3
\* commits in a history handed to the summarizer
MaxSummaryHistory == 2
\* largest max_tokens_per_commit argument
MaxLength == 140
\* largest max_recent argument
MaxRecent == 4
\* get_repo calls made by each of two concurrent callers
MaxCalls == 1
\* get_repo calls made one after the other
MaxSerialCalls == 3

-----------------------------------------------------------------------------
(* Python string primitives.                                               *)

Min(a, b) == IF a < b THEN a ELSE b

Max(a, b) == IF a > b THEN a ELSE b

UpperChars == <<"A","B","C","D","E","F","G","H","I","J","K","L","M","N","O","P","Q","R","S","T","U","V","W","X","Y","Z">>

LowerChars == <<"a","b","c","d","e","f","g","h","i","j","k","l","m","n","o","p","q","r","s","t","u","v","w","x","y","z">>

\* str.lower() on one character
LowerChar(c) ==
    IF \E i \in 1..Len(UpperChars) : UpperChars[i] = c
    THEN LowerChars[CHOOSE i \in 1..Len(UpperChars) : UpperChars[i] = c]
    ELSE c

\* str.lower()
Lower(s) == [i \in 1..Len(s) |-> LowerChar(s[i])]

\* k in s
Contains(s, k) ==
    \E i \in 0..(Len(s) - Len(k)) : SubSeq(s, i + 1, i + Len(k)) = k

\* s.endswith(k)
EndsWith(s, k) ==
    /\ Len(k) <= Len(s)
    /\ SubSeq(s, Len(s) - Len(k) + 1, Len(s)) = k

\* s.startswith(k)
StartsWith(s, k) ==
    /\ Len(k) <= Len(s)
    /\ SubSeq(s, 1, Len(k)) = k

\* s[:n] for n >= 0
Take(s, n) == SubSeq(s, 1, Min(n, Len(s)))

\* s[-n:] for n >= 0: -0 is 0, so s[-0:] is s[0:], the whole sequence
LastSlice(s, n) == IF n = 0 THEN s ELSE SubSeq(s, Max(Len(s) - n, 0) + 1, Len(s))

\* s[:-n] for n >= 0: s[:-0] is s[:0], the empty sequence
HeadSlice(s, n) == IF n = 0 THEN <<>> ELSE SubSeq(s, 1, Max(Len(s) - n, 0))

Whitespace == {" ", "\n", "\t", "\r"}

LineBreaks == {"\n", "\r"}

RECURSIVE LStrip(_)
LStrip(s) ==
    IF s # <<>> /\ Head(s) \in Whitespace THEN LStrip(Tail(s)) ELSE s

RECURSIVE RStrip(_)
RStrip(s) ==
    IF s # <<>> /\ s[Len(s)] \in Whitespace
    THEN RStrip(SubSeq(s, 1, Len(s) - 1))
    ELSE s

\* str.strip()
Strip(s) == LStrip(RStrip(s))

\* s.splitlines()[0] for a non-empty s ("".splitlines() is [], and [0] raises)
FirstLine(s) ==
    IF \E i \in 1..Len(s) : s[i] \in LineBreaks
    THEN SubSeq(s, 1, (CHOOSE i \in 1..Len(s) :
                          /\ s[i] \in LineBreaks
                          /\ \A j \in 1..(i - 1) : s[j] \notin LineBreaks) - 1)
    ELSE s

Digits == <<"0","1","2","3","4","5","6","7","8","9">>

\* str(n) for n >= 0
RECURSIVE Str(_)
Str(n) ==
    IF n < 10 THEN <<Digits[n + 1]>> ELSE Str(n \div 10) \o <<Digits[(n % 10) + 1]>>

\* n formatted with at least w digits, zero padded (%Y is 4 wide, %m and %d 2)
RECURSIVE ZeroPad(_, _)
ZeroPad(n, w) ==
    IF Len(Str(n)) >= w THEN Str(n) ELSE <<"0">> \o ZeroPad(n, w - 1)

\* sep.join(parts)
RECURSIVE Join(_, _)
Join(parts, sep) ==
    IF parts = <<>> THEN <<>>
    ELSE IF Len(parts) = 1 THEN parts[1]
    ELSE parts[1] \o sep \o Join(Tail(parts), sep)

\* the concatenation of a sequence of strings
RECURSIVE Concat(_)
Concat(parts) == IF parts = <<>> THEN <<>> ELSE Head(parts) \o Concat(Tail(parts))

Reverse(s) == [i \in 1..Len(s) |-> s[Len(s) - i + 1]]

-----------------------------------------------------------------------------
(* Commit Classifier: classify_importance.                                 *)

Labels == {<<"S","e","t","u","p">>, <<"F","e","a","t","u","r","e">>, <<"F","i","x">>, <<"R","e","f","a","c","t","o","r">>, <<"T","e","s","t">>, <<"O","t","h","e","r">>}

\* any(k in msg for k in keywords)
AnyIn(msg, keywords) == \E k \in keywords : Contains(msg, k)

classify_importance_TestBeforeFix(m) ==
    LET msg == Lower(m) IN
    IF AnyIn(msg, {<<"i","n","i","t">>, <<"s","e","t","u","p">>, <<"i","n","i","t","i","a","l">>}) THEN <<"S","e","t","u","p">>
    ELSE IF AnyIn(msg, {<<"a","d","d">>, <<"f","e","a","t","u","r","e">>, <<"i","m","p","l","e","m","e","n","t">>}) THEN <<"F","e","a","t","u","r","e">>
    ELSE IF Contains(msg, <<"t","e","s","t">>) THEN <<"T","e","s","t">>
    ELSE IF AnyIn(msg, {<<"f","i","x">>, <<"b","u","g">>, <<"i","s","s","u","e">>}) THEN <<"F","i","x">>
    ELSE IF AnyIn(msg, {<<"r","e","f","a","c","t","o","r">>, <<"c","l","e","a","n","u","p">>}) THEN <<"R","e","f","a","c","t","o","r">>
    ELSE <<"O","t","h","e","r">>

classify_importance(m) ==
    LET msg == Lower(m) IN
    IF AnyIn(msg, {<<"i","n","i","t">>, <<"s","e","t","u","p">>, <<"i","n","i","t","i","a","l">>}) THEN <<"S","e","t","u","p">>
    ELSE IF AnyIn(msg, {<<"a","d","d">>, <<"f","e","a","t","u","r","e">>, <<"i","m","p","l","e","m","e","n","t">>}) THEN <<"F","e","a","t","u","r","e">>
    ELSE IF AnyIn(msg, {<<"f","i","x">>, <<"b","u","g">>, <<"i","s","s","u","e">>}) THEN <<"F","i","x">>
    ELSE IF AnyIn(msg, {<<"r","e","f","a","c","t","o","r">>, <<"c","l","e","a","n","u","p">>}) THEN <<"R","e","f","a","c","t","o","r">>
    ELSE IF Contains(msg, <<"t","e","s","t">>) THEN <<"T","e","s","t">>
    ELSE <<"O","t","h","e","r">>

-----------------------------------------------------------------------------
(* File Purpose Inferencer: infer_file_purpose.                            *)

infer_file_purpose(filename) ==
    LET fname == Lower(filename) IN
    IF EndsWith(fname, <<".","p","y">>) THEN <<"P","y","t","h","o","n"," ","s","o","u","r","c","e"," ","c","o","d","e">>
    ELSE IF EndsWith(fname, <<".","m","d">>) THEN <<"D","o","c","u","m","e","n","t","a","t","i","o","n">>
    ELSE IF EndsWith(fname, <<".","g","i","t","i","g","n","o","r","e">>) THEN <<"G","i","t"," ","i","g","n","o","r","e"," ","r","u","l","e","s">>
    ELSE IF EndsWith(fname, <<".","j","s","o","n">>) THEN <<"C","o","n","f","i","g","u","r","a","t","i","o","n","/","d","a","t","a"," ","f","i","l","e">>
    ELSE IF EndsWith(fname, <<".","y","m","l">>) \/ EndsWith(fname, <<".","y","a","m","l">>)
         THEN <<"C","o","n","f","i","g","u","r","a","t","i","o","n"," ","f","i","l","e">>
    ELSE <<"O","t","h","e","r">>

-----------------------------------------------------------------------------
(* The repository history the extractor reads through GitPython.           *)

\* commit.author is an Actor or None
NoAuthor == <<"None">>

\* README.md +10/-0
InitialCommit ==
    [author |-> <<"A","n","n">>, committed_date |-> 1700000000,
     message |-> <<"I","n","i","t","i","a","l"," ","c","o","m","m","i","t","\n">>,
     files |-> <<[name |-> <<"R","E","A","D","M","E",".","m","d">>, insertions |-> 10, deletions |-> 0]>>]

\* three files, the largest change reported last
AddLoginCommit ==
    [author |-> <<"B","o">>, committed_date |-> 1709210096,
     message |-> <<"A","d","d"," ","l","o","g","i","n"," ","f","e","a","t","u","r","e","\n","\n","a","n","d"," ","i","t","s"," ","t","e","s","t","\n">>,
     files |-> <<[name |-> <<"a","u","t","h",".","p","y">>, insertions |-> 50, deletions |-> 2],
                 [name |-> <<".","g","i","t","i","g","n","o","r","e">>, insertions |-> 1, deletions |-> 0],
                 [name |-> <<"c","o","n","f",".","Y","A","M","L">>, insertions |-> 120, deletions |-> 7]>>]

\* a commit without author identity
FixLoginCommit ==
    [author |-> NoAuthor, committed_date |-> 1735689599,
     message |-> <<" "," ","F","i","x"," ","l","o","g","i","n"," ","b","u","g">>,
     files |-> <<[name |-> <<"a","u","t","h",".","p","y">>, insertions |-> 5, deletions |-> 3]>>]

\* git commit --allow-empty --allow-empty-message
EmptyMessageCommit ==
    [author |-> <<"A","n","n">>, committed_date |-> 0, message |-> <<"\n">>, files |-> <<>>]

\* a merge that touches no file
MergeCommit ==
    [author |-> <<"B","o">>, committed_date |-> 951782400, message |-> <<"M","e","r","g","e"," ","d","e","v","\n">>,
     files |-> <<>>]

Commits ==
    {InitialCommit, AddLoginCommit, FixLoginCommit, EmptyMessageCommit, MergeCommit}

\* the sequences of length at most n over set S
SeqsUpTo(S, n) == UNION {[1..k -> S] : k \in 0..n}

\* a history is what git rev-list HEAD reports: the commits newest first
Histories == SeqsUpTo(Commits, MaxHistory)

-----------------------------------------------------------------------------
(* Memory Extractor: extract_commit_memory.                                *)

iter_commits_Oldest(h, max_count) ==
    SubSeq(h, Len(h) - Min(max_count, Len(h)) + 1, Len(h))

\* repo.iter_commits("HEAD", max_count=max_commits): the first max_count
\* commits of the history, newest first
iter_commits(h, max_count) == SubSeq(h, 1, Min(max_count, Len(h)))

\* the year, month and day of a day number counted from 1970-01-01
CivilFromDays(days) ==
    LET z == days + 719468
        era == z \div 146097
        doe == z - era * 146097
        yoe == (doe - doe \div 1460 + doe \div 36524 - doe \div 146096) \div 365
        doy == doe - (365 * yoe + yoe \div 4 - yoe \div 100)
        mp == (5 * doy + 2) \div 153
        d == doy - (153 * mp + 2) \div 5 + 1
        m == IF mp < 10 THEN mp + 3 ELSE mp - 9
        y == yoe + era * 400 + (IF m <= 2 THEN 1 ELSE 0)
    IN  [year |-> y, month |-> m, day |-> d]

\* datetime.utcfromtimestamp(ts).strftime("%Y-%m-%d")
FormatDate(ts) ==
    LET c == CivilFromDays(ts \div 86400) IN
    ZeroPad(c.year, 4) \o <<"-">> \o ZeroPad(c.month, 2) \o <<"-">> \o ZeroPad(c.day, 2)

\* sum of one statistic over all the files of a commit (commit.stats.total)
RECURSIVE SumOver(_, _)
SumOver(files, field) ==
    IF files = <<>> THEN 0 ELSE Head(files)[field] + SumOver(Tail(files), field)

FileEntry(f) ==
    [name |-> f.name, purpose |-> infer_file_purpose(f.name),
     insertions |-> f.insertions, deletions |-> f.deletions]

\* files ordered by decreasing change volume
RECURSIVE SortByVolume(_)
SortByVolume(files) ==
    IF files = <<>> THEN <<>>
    ELSE LET i == CHOOSE i \in 1..Len(files) :
                    \A j \in 1..Len(files) :
                        \/ files[i].insertions + files[i].deletions
                             > files[j].insertions + files[j].deletions
                        \/ /\ files[i].insertions + files[i].deletions
                                = files[j].insertions + files[j].deletions
                           /\ i <= j
         IN  <<files[i]>> \o
             SortByVolume([k \in 1..(Len(files) - 1) |->
                              IF k < i THEN files[k] ELSE files[k + 1]])

important_files_ByVolume(commit, n) ==
    LET sorted == SortByVolume(commit.files) IN
    [i \in 1..Min(n, Len(sorted)) |-> FileEntry(sorted[i])]

\* list(commit.stats.files.items())[:top_files], one entry each
important_files(commit, n) ==
    [i \in 1..Min(n, Len(commit.files)) |-> FileEntry(commit.files[i])]

\* the record appended at lines 97-108
CommitRecord(idx, commit, n) ==
    [commit_number |-> idx,
     author |-> IF commit.author # NoAuthor THEN commit.author ELSE <<"U","n","k","n","o","w","n">>,
     date |-> FormatDate(commit.committed_date),
     message |-> Strip(commit.message),
     type |-> classify_importance(commit.message),
     summary |-> FirstLine(Strip(commit.message)),
     key_files |-> important_files(commit, n),
     insertions |-> SumOver(commit.files, "insertions"),
     deletions |-> SumOver(commit.files, "deletions"),
     files_changed_count |-> Len(commit.files)]

\* enumerate(commits, 1): the index given to the i-th commit
enumerate(commits) == [i \in 1..Len(commits) |-> i]

\* commit.message.strip().splitlines()[0] raises IndexError on an empty message
RaisesIndexError(h, n) ==
    \E i \in 1..Len(iter_commits(h, n)) : Strip(iter_commits(h, n)[i].message) = <<>>

extract_commit_memory(h, n, top) ==
    LET commits == Reverse(iter_commits(h, n))
        idx == enumerate(commits)
    IN  [i \in 1..Len(commits) |-> CommitRecord(idx[i], commits[i], top)]

-----------------------------------------------------------------------------
(* Commit Summarizer: summarize_commits.                                   *)

FileText(f) ==
    f.name \o <<" ","(">> \o f.purpose \o <<")",":"," ","+">> \o Str(f.insertions)
           \o <<"/","-">> \o Str(f.deletions)

\* ", ".join([... for f in c['key_files']])
files_info(c) == Join([i \in 1..Len(c.key_files) |-> FileText(c.key_files[i])], <<","," ">>)

\* the f-string of lines 123-128
CommitText(c) ==
    <<"C","o","m","m","i","t"," ">> \o Str(c.commit_number) \o <<" ","b","y"," ">> \o c.author \o <<" ","o","n"," ">> \o c.date
    \o <<" ","[">> \o c.type \o <<"]",":"," ">> \o c.summary \o <<"."," ">>
    \o <<"F","i","l","e","s"," ","c","h","a","n","g","e","d"," ","(">> \o Str(c.files_changed_count) \o <<")",":"," ">> \o files_info(c) \o <<"."," ">>
    \o <<"I","n","s","e","r","t","i","o","n","s",":"," ">> \o Str(c.insertions) \o <<","," ","D","e","l","e","t","i","o","n","s",":"," ">> \o Str(c.deletions) \o <<".">>

TruncationMarker == <<" ","[",".",".",".","]">>

Truncate_AtBound(text, n) ==
    IF Len(text) >= n THEN Take(text, n) \o TruncationMarker ELSE text

\* lines 130-131
Truncate(text, n) ==
    IF Len(text) > n THEN Take(text, n) \o TruncationMarker ELSE text

summarize_commits(mem, n) == [i \in 1..Len(mem) |-> Truncate(CommitText(mem[i]), n)]

-----------------------------------------------------------------------------
(* Narrative Requester: _ensure_openai and generate_story.                 *)

\* os.getenv("OPENAI_API_KEY") is None when the variable is not set
NoKey == <<"None">>

ApiKeys == {NoKey, <<>>, <<"s","k","-","1">>}

\* top_files=5, the default the callers of extract_commit_memory leave in place
DefaultTopFiles == 5

\* max_tokens_per_commit=200, the default generate_story leaves in place
DefaultMaxTokens == 200

\* the memories generate_story is given: extractions that returned
StoryMemories ==
    {extract_commit_memory(h, MaxHistory, DefaultTopFiles) :
        h \in {g \in Histories : ~RaisesIndexError(g, MaxHistory)}}

\* resp.choices[0].message.content, as the service may answer
Responses == {<<" "," ","C","o","m","m","i","t"," ","1",":"," ","t","h","e"," ","j","o","u","r","n","e","y"," ","b","e","g","i","n","s",".","\n">>, <<>>}

_ensure_openai_Deferred(key) == FALSE

\* lines 16-18: "if not key" is true of None and of the empty string
_ensure_openai_raises(key) == key = NoKey \/ key = <<>>

\* the f-string of lines 165-170
RecentText(c) ==
    <<"C","o","m","m","i","t"," ">> \o Str(c.commit_number) \o <<" ","b","y"," ">> \o c.author \o <<" ","o","n"," ">> \o c.date
    \o <<" ","[">> \o c.type \o <<"]",":"," ">> \o c.summary \o <<"."," ">>
    \o <<"F","i","l","e","s"," ","c","h","a","n","g","e","d"," ","(">> \o Str(c.files_changed_count) \o <<")",":"," ">> \o files_info(c) \o <<"."," ">>
    \o <<"I","n","s","e","r","t","i","o","n","s",":"," ">> \o Str(c.insertions) \o <<","," ","D","e","l","e","t","i","o","n","s",":"," ">> \o Str(c.deletions) \o <<".","\n">>

\* lines 159-172
BuildUserText(older, recent) ==
    <<"R","e","p","o","s","i","t","o","r","y"," ","c","o","m","m","i","t"," ","m","e","m","o","r","y",":","\n">>
    \o Concat([i \in 1..Len(older) |-> older[i] \o <<"\n">>])
    \o Concat([i \in 1..Len(recent) |-> RecentText(recent[i])])
    \o <<"\n","W","r","i","t","e"," ","a"," ","n","a","r","r","a","t","e","d"," ","s","t","o","r","y"," ","w","i","t","h"," ","o","n","e"," ","p","a","r","a","g","r","a","p","h"," ","p","e","r"," ","c","o","m","m","i","t",".">>

StoryIdle ==
    /\ api_key = NoKey
    /\ max_recent = 0
    /\ spc = "idle"
    /\ recent_memory = <<>>
    /\ older_memory = <<>>
    /\ summarized_older = <<>>
    /\ user_text = <<>>
    /\ service_calls = 0
    /\ story = <<>>

\* line 143: client = _ensure_openai()
EnsureOpenAI ==
    /\ StoryFrame
    /\ spc = "start"
    /\ spc' = IF _ensure_openai_raises(api_key) THEN "config_error" ELSE "split"
    /\ UNCHANGED <<api_key, max_recent, recent_memory, older_memory,
                   summarized_older, user_text, service_calls, story>>

\* lines 152-153
SplitMemory ==
    /\ StoryFrame
    /\ spc = "split"
    /\ recent_memory' = LastSlice(memory, max_recent)
    /\ older_memory' = HeadSlice(memory, max_recent)
    /\ spc' = "summarize"
    /\ UNCHANGED <<api_key, max_recent, summarized_older, user_text,
                   service_calls, story>>

\* line 156
SummarizeOlder ==
    /\ StoryFrame
    /\ spc = "summarize"
    /\ summarized_older' = summarize_commits(older_memory, DefaultMaxTokens)
    /\ spc' = "build"
    /\ UNCHANGED <<api_key, max_recent, recent_memory, older_memory, user_text,
                   service_calls, story>>

\* lines 159-172
BuildPrompt ==
    /\ StoryFrame
    /\ spc = "build"
    /\ user_text' = BuildUserText(summarized_older, recent_memory)
    /\ spc' = "request"
    /\ UNCHANGED <<api_key, max_recent, recent_memory, older_memory,
                   summarized_older, service_calls, story>>

\* lines 174-183: the request is sent, and the answer is stripped and returned
RequestStory ==
    /\ StoryFrame
    /\ spc = "request"
    /\ service_calls' = service_calls + 1
    /\ \E content \in Responses :
        /\ story' = Strip(content)
        /\ spc' = "done"
    /\ UNCHANGED <<api_key, max_recent, recent_memory, older_memory,
                   summarized_older, user_text>>

\* lines 174-181: a transport or service error propagates to the caller
RequestFails ==
    /\ StoryFrame
    /\ spc = "request"
    /\ service_calls' = service_calls + 1
    /\ spc' = "service_error"
    /\ UNCHANGED <<api_key, max_recent, recent_memory, older_memory,
                   summarized_older, user_text, story>>

generate_story ==
    \/ EnsureOpenAI
    \/ SplitMemory
    \/ SummarizeOlder
    \/ BuildPrompt
    \/ RequestStory
    \/ RequestFails

-----------------------------------------------------------------------------
(* Repository Accessor: get_repo.                                          *)

Locations ==
    {<<"h","t","t","p",":","/","/","a","/","p","r","o","j",".","g","i","t">>, <<"h","t","t","p",":","/","/","b","/","p","r","o","j">>, <<"h","t","t","p","s",":","/","/","a","/","m","y",".","g","i","t","h","u","b",".","i","o">>,
     <<".">>, <<"/","n","o","p","e">>}

\* the local paths that hold a repository
LocalRepos == {<<".">>}

\* os.path.basename(path): what follows the last "/"
RECURSIVE basename(_)
basename(path) ==
    IF path = <<>> THEN <<>>
    ELSE IF path[Len(path)] = "/" THEN <<>>
    ELSE basename(SubSeq(path, 1, Len(path) - 1)) \o <<path[Len(path)]>>

\* s.replace(old, ""): every occurrence of old removed, left to right
RECURSIVE Remove(_, _)
Remove(s, old) ==
    IF s = <<>> THEN <<>>
    ELSE IF StartsWith(s, old) THEN Remove(SubSeq(s, Len(old) + 1, Len(s)), old)
    ELSE <<Head(s)>> \o Remove(Tail(s), old)

\* line 25
IsRemote(repo_path) == StartsWith(repo_path, <<"h","t","t","p">>)

\* line 28, as the path below the repo_cache directory
CachePath(repo_path) == Remove(basename(repo_path), <<".","g","i","t">>)

CachePaths == {CachePath(l) : l \in {u \in Locations : IsRemote(u)}}

Absent == [kind |-> "absent", origin |-> <<>>]

PathExists_Never(c, path) == FALSE

PathExists_Inverted(c, path) == c[path].kind = "absent"

\* line 29: os.path.exists(local_path)
PathExists(c, path) == c[path].kind # "absent"

\* the two callers that run at once, and the one that calls get_repo in series
Callers == {"a", "b"}

SerialCaller == "main"

AllCallers == Callers \cup {SerialCaller}

CallLimit(p) == IF p = SerialCaller THEN MaxSerialCalls ELSE MaxCalls

InCall(p) == pc[p] \notin {"idle", "returned", "raised"}

NoLog == [cloned |-> FALSE, clone_ok |-> FALSE, opened |-> FALSE, saw_absent |-> FALSE]

RepoInit ==
    /\ pc = [p \in AllCallers |-> "idle"]
    /\ loc = [p \in AllCallers |-> <<>>]
    /\ local_path = [p \in AllCallers |-> <<>>]
    /\ handle = [p \in AllCallers |-> <<>>]
    /\ cache = [path \in CachePaths |-> Absent]
    /\ calls = [p \in AllCallers |-> 0]
    /\ seen_at_call = [p \in AllCallers |-> cache]
    /\ clone_started = [path \in CachePaths |-> 0]
    /\ clone_failed = [path \in CachePaths |-> 0]
    /\ clone_done = [path \in CachePaths |-> 0]
    /\ overlapped = FALSE
    /\ log = [p \in AllCallers |-> NoLog]

\* lines 24-28: the call is entered, and a remote location gets its cache path
Call(p, l) ==
    /\ RepoFrame
    /\ ~InCall(p)
    /\ calls[p] < CallLimit(p)
    /\ calls' = [calls EXCEPT ![p] = @ + 1]
    /\ loc' = [loc EXCEPT ![p] = l]
    /\ local_path' = [local_path EXCEPT ![p] = IF IsRemote(l) THEN CachePath(l) ELSE l]
    /\ pc' = [pc EXCEPT ![p] = IF IsRemote(l) THEN "check" ELSE "open_local"]
    /\ handle' = [handle EXCEPT ![p] = <<>>]
    /\ seen_at_call' = [seen_at_call EXCEPT ![p] = cache]
    /\ log' = [log EXCEPT ![p] = NoLog]
    /\ overlapped' = (overlapped \/ \E q \in AllCallers \ {p} : InCall(q))
    /\ UNCHANGED <<cache, clone_started, clone_failed, clone_done>>

\* line 29
CheckCache(p) ==
    /\ RepoFrame
    /\ pc[p] = "check"
    /\ pc' = [pc EXCEPT ![p] = IF PathExists(cache, local_path[p]) THEN "open" ELSE "clone"]
    /\ log' = [log EXCEPT ![p].saw_absent = ~PathExists(cache, local_path[p])]
    /\ UNCHANGED <<loc, local_path, handle, cache, calls, seen_at_call,
                   clone_started, clone_failed, clone_done, overlapped>>

\* line 30: Repo.clone_from starts git clone, which makes the directory, or
\* refuses a destination that exists and is not empty; a destination another
\* clone has just made may still be empty
CloneStart(p) ==
    /\ RepoFrame
    /\ pc[p] = "clone"
    /\ clone_started' = [clone_started EXCEPT ![local_path[p]] = @ + 1]
    /\ log' = [log EXCEPT ![p].cloned = TRUE]
    /\ \/ /\ cache[local_path[p]].kind = "absent"
          /\ cache' = [cache EXCEPT ![local_path[p]] =
                          [kind |-> "partial", origin |-> loc[p]]]
          /\ pc' = [pc EXCEPT ![p] = "cloning"]
       \/ /\ cache[local_path[p]].kind = "partial"
          /\ pc' = [pc EXCEPT ![p] = "cloning"]
          /\ UNCHANGED cache
       \/ /\ cache[local_path[p]].kind # "absent"
          /\ pc' = [pc EXCEPT ![p] = "raised"]
          /\ UNCHANGED cache
    /\ UNCHANGED <<loc, local_path, handle, calls, seen_at_call, clone_failed,
                   clone_done, overlapped>>

\* line 30: the clone completes
CloneFinish(p) ==
    /\ RepoFrame
    /\ pc[p] = "cloning"
    /\ cache' = [cache EXCEPT ![local_path[p]] = [kind |-> "repo", origin |-> loc[p]]]
    /\ clone_done' = [clone_done EXCEPT ![local_path[p]] = @ + 1]
    /\ log' = [log EXCEPT ![p].clone_ok = TRUE]
    /\ pc' = [pc EXCEPT ![p] = "open"]
    /\ UNCHANGED <<loc, local_path, handle, calls, seen_at_call, clone_started,
                   clone_failed, overlapped>>

\* line 30: the fetch fails, git clone removes what it made, and
\* GitCommandError propagates; what a concurrent clone into the same
\* directory keeps of it is not determined
CloneFails(p) ==
    /\ RepoFrame
    /\ pc[p] = "cloning"
    /\ clone_failed' = [clone_failed EXCEPT ![local_path[p]] = @ + 1]
    /\ \/ cache' = [cache EXCEPT ![local_path[p]] = Absent]
       \/ /\ \/ cache[local_path[p]].kind = "repo"
             \/ \E q \in AllCallers \ {p} :
                    pc[q] = "cloning" /\ local_path[q] = local_path[p]
          /\ UNCHANGED cache
    /\ pc' = [pc EXCEPT ![p] = "raised"]
    /\ UNCHANGED <<loc, local_path, handle, calls, seen_at_call, clone_started,
                   clone_done, overlapped, log>>

\* line 31: Repo(local_path)
OpenCached(p) ==
    /\ RepoFrame
    /\ pc[p] = "open"
    /\ log' = [log EXCEPT ![p].opened = TRUE]
    /\ \/ /\ cache[local_path[p]].kind \in {"repo", "partial"}
          /\ handle' = [handle EXCEPT ![p] = cache[local_path[p]].origin]
          /\ pc' = [pc EXCEPT ![p] = "returned"]
       \/ /\ cache[local_path[p]].kind \in {"absent", "partial"}
          /\ pc' = [pc EXCEPT ![p] = "raised"]
          /\ UNCHANGED handle
    /\ UNCHANGED <<loc, local_path, cache, calls, seen_at_call, clone_started,
                   clone_failed, clone_done, overlapped>>

\* line 33: Repo(repo_path)
OpenLocal(p) ==
    /\ RepoFrame
    /\ pc[p] = "open_local"
    /\ log' = [log EXCEPT ![p].opened = TRUE]
    /\ IF loc[p] \in LocalRepos
       THEN /\ handle' = [handle EXCEPT ![p] = loc[p]]
            /\ pc' = [pc EXCEPT ![p] = "returned"]
       ELSE /\ pc' = [pc EXCEPT ![p] = "raised"]
            /\ UNCHANGED handle
    /\ UNCHANGED <<loc, local_path, cache, calls, seen_at_call, clone_started,
                   clone_failed, clone_done, overlapped>>

get_repo(p) ==
    \/ \E l \in Locations : Call(p, l)
    \/ CheckCache(p)
    \/ CloneStart(p)
    \/ CloneFinish(p)
    \/ CloneFails(p)
    \/ OpenCached(p)
    \/ OpenLocal(p)

-----------------------------------------------------------------------------
(* The components at rest, for the specifications that do not run them.     *)

ClassifyIdle == message = <<>> /\ label = <<>>

ExtractIdle ==
    /\ history = <<>>
    /\ max_commits = 1
    /\ top_files = 1
    /\ xpc = "idle"

SummaryIdle ==
    /\ max_tokens_per_commit = DefaultMaxTokens
    /\ summarized = <<>>
    /\ sum_pc = "idle"

-----------------------------------------------------------------------------
(* The classifier applied to a message.                                    *)

\* pieces of commit messages: keywords in mixed case, halves of keywords
\* that meet when concatenated, and text that is no keyword
Fragments ==
    {<<"F","i","x">>, <<"t","e">>, <<"s","t">>, <<"A","d","d">>, <<"i","n">>, <<"I","T">>, <<" ">>, <<"c","l","e","a","n","u","p">>, <<"x">>}

Messages == {Concat(ws) : ws \in SeqsUpTo(Fragments, MaxWords)}

ClassifyInit ==
    /\ message \in Messages
    /\ label = <<>>
    /\ ExtractIdle /\ memory = <<>> /\ SummaryIdle /\ StoryIdle /\ RepoInit

Classify ==
    /\ label = <<>>
    /\ label' = classify_importance(message)
    /\ UNCHANGED <<message, extractVars, memory, summaryVars, storyVars, repoVars>>

SpecClassify == ClassifyInit /\ [][Classify]_vars

-----------------------------------------------------------------------------
(* One extraction call on a repository opened from a local path.           *)

ExtractInit ==
    /\ history \in Histories
    /\ max_commits \in 1..MaxCommitsArg
    /\ top_files \in 1..MaxTopFiles
    /\ memory = <<>>
    /\ xpc = "start"
    /\ ClassifyIdle /\ SummaryIdle /\ StoryIdle /\ RepoInit

\* lines 78-109: the call returns the records, or raises IndexError at line
\* 103 on a commit whose message is empty
Extract ==
    /\ xpc = "start"
    /\ IF RaisesIndexError(history, max_commits)
       THEN xpc' = "raised" /\ UNCHANGED memory
       ELSE /\ memory' = extract_commit_memory(history, max_commits, top_files)
            /\ xpc' = "returned"
    /\ UNCHANGED <<history, max_commits, top_files, classifyVars, summaryVars,
                   storyVars, repoVars>>

\* line 79 on a repository without commits: HEAD names no commit, and
\* whether git rev-list HEAD yields nothing or fails is the library's;
\* Extract covers the first, this the second
ExtractUnbornHead ==
    /\ xpc = "start"
    /\ history = <<>>
    /\ xpc' = "raised"
    /\ UNCHANGED <<history, max_commits, top_files, memory, classifyVars,
                   summaryVars, storyVars, repoVars>>

SpecExtract == ExtractInit /\ [][Extract \/ ExtractUnbornHead]_vars

-----------------------------------------------------------------------------
(* The summarizer applied to extracted records.                            *)

SummaryMemories ==
    {extract_commit_memory(h, MaxSummaryHistory, top) :
        h \in {g \in SeqsUpTo(Commits, MaxSummaryHistory) :
                  ~RaisesIndexError(g, MaxSummaryHistory)},
        top \in 1..MaxTopFiles}

SummaryInit ==
    /\ memory \in SummaryMemories
    /\ max_tokens_per_commit \in 1..MaxLength
    /\ summarized = <<>>
    /\ sum_pc = "start"
    /\ ClassifyIdle /\ ExtractIdle /\ StoryIdle /\ RepoInit

\* lines 114-133
Summarize ==
    /\ sum_pc = "start"
    /\ summarized' = summarize_commits(memory, max_tokens_per_commit)
    /\ sum_pc' = "returned"
    /\ UNCHANGED <<max_tokens_per_commit, memory, classifyVars, extractVars,
                   storyVars, repoVars>>

SpecSummarize == SummaryInit /\ [][Summarize]_vars

-----------------------------------------------------------------------------
(* One generate_story call.                                                *)

StoryInit ==
    /\ memory \in StoryMemories
    /\ api_key \in ApiKeys
    /\ max_recent \in 0..MaxRecent
    /\ spc = "start"
    /\ recent_memory = <<>>
    /\ older_memory = <<>>
    /\ summarized_older = <<>>
    /\ user_text = <<>>
    /\ service_calls = 0
    /\ story = <<>>
    /\ ClassifyIdle /\ ExtractIdle /\ SummaryIdle /\ RepoInit

SpecStory == StoryInit /\ [][generate_story]_vars

-----------------------------------------------------------------------------
(* get_repo called by one caller, one call after the other, and by two     *)
(* callers at once.                                                        *)

RepoSpecInit ==
    /\ RepoInit
    /\ ClassifyIdle /\ ExtractIdle /\ memory = <<>> /\ SummaryIdle /\ StoryIdle

SerialNext == get_repo(SerialCaller)

SpecSerial == RepoSpecInit /\ [][SerialNext]_vars

ConcurrentNext == \E p \in Callers : get_repo(p)

SpecConcurrent == RepoSpecInit /\ [][ConcurrentNext]_vars

Spec == SpecConcurrent

-----------------------------------------------------------------------------
(* Properties.                                                             *)

\* the categories in the order of section 4.2, each with its keywords
PriorityOrder == <<<<"S","e","t","u","p">>, <<"F","e","a","t","u","r","e">>, <<"F","i","x">>, <<"R","e","f","a","c","t","o","r">>, <<"T","e","s","t">>>>

KeywordSets ==
    <<{<<"i","n","i","t">>, <<"s","e","t","u","p">>, <<"i","n","i","t","i","a","l">>},
      {<<"a","d","d">>, <<"f","e","a","t","u","r","e">>, <<"i","m","p","l","e","m","e","n","t">>},
      {<<"f","i","x">>, <<"b","u","g">>, <<"i","s","s","u","e">>},
      {<<"r","e","f","a","c","t","o","r">>, <<"c","l","e","a","n","u","p">>},
      {<<"t","e","s","t">>}>>

\* a keyword of category i occurs in the lower-cased message
Occurs(i, m) == \E k \in KeywordSets[i] : Contains(Lower(m), k)

\* C1: classify_importance is total and first match wins: the label of every
\* message, the empty one included, is one of the six labels, and it is the
\* earliest category in the order Setup, Feature, Fix, Refactor, Test with a
\* keyword occurring in the lower-cased message, or Other when none occurs.
C1_FirstMatchWins ==
    label # <<>> =>
        /\ label \in Labels
        /\ IF \E i \in 1..Len(PriorityOrder) : Occurs(i, message)
           THEN \E i \in 1..Len(PriorityOrder) :
                    /\ Occurs(i, message)
                    /\ \A j \in 1..(i - 1) : ~Occurs(j, message)
                    /\ label = PriorityOrder[i]
           ELSE label = <<"O","t","h","e","r">>

\* a message with both "fix" and "test" has been classified Fix
C1_Witness ==
    /\ label = <<"F","i","x">>
    /\ Contains(Lower(message), <<"f","i","x">>)
    /\ Contains(Lower(message), <<"t","e","s","t">>)
    /\ message # Lower(message)

\* the truncation marker of section 4.5
Marker == <<" ","[",".",".",".","]">>

\* C2: for every record and every positive bound L, the summary is the first
\* L characters of the natural rendering followed by " [...]" when the
\* rendering is longer than L, and the rendering unchanged otherwise; so no
\* summary is longer than L plus the marker, and a rendering of exactly L
\* characters is not marked.
C2_TruncatedAtBound ==
    sum_pc = "returned" =>
        /\ Len(summarized) = Len(memory)
        /\ \A i \in 1..Len(memory) :
            LET natural == CommitText(memory[i])
                L == max_tokens_per_commit
            IN  /\ Len(natural) > L =>
                       summarized[i] = SubSeq(natural, 1, L) \o Marker
                /\ Len(natural) <= L => summarized[i] = natural
                /\ Len(summarized[i]) <= L + Len(Marker)

\* one record rendered in exactly L characters and left unmarked, another
\* rendered longer and cut
C2_Witness ==
    /\ sum_pc = "returned"
    /\ \E i, j \in 1..Len(memory) :
        /\ Len(CommitText(memory[i])) = max_tokens_per_commit
        /\ summarized[i] = CommitText(memory[i])
        /\ Len(CommitText(memory[j])) > max_tokens_per_commit
        /\ Len(summarized[j]) = max_tokens_per_commit + Len(Marker)

\* the record made of a commit, by the fields that identify the commit
SameCommit(rec, commit) ==
    /\ rec.message = Strip(commit.message)
    /\ rec.date = FormatDate(commit.committed_date)
    /\ rec.files_changed_count = Len(commit.files)
    /\ rec.author = IF commit.author = NoAuthor THEN <<"U","n","k","n","o","w","n">> ELSE commit.author

\* the number of records an extraction returns
Returned == Min(max_commits, Len(history))

\* the commit behind the i-th returned record: the i-th oldest of the newest
\* Returned commits of a history listed newest first
CommitOf(i) == history[Returned - i + 1]

\* C3: the records an extraction returns are the newest min(maxCommits,
\* history length) commits, oldest first, and the i-th record has
\* sequence number i.
C3_NewestOldestFirst ==
    xpc = "returned" =>
        /\ Len(memory) = Returned
        /\ \A i \in 1..Len(memory) :
            /\ memory[i].commit_number = i
            /\ SameCommit(memory[i], CommitOf(i))

\* an extraction returned fewer commits than the history holds, of at least
\* two different commits
C3_Witness ==
    /\ xpc = "returned"
    /\ Len(history) > max_commits
    /\ Len(memory) >= 2
    /\ memory[1].message # memory[2].message
    /\ history[Len(history)] # history[max_commits]

\* C4: the file entries of every record are the first min(topFiles, files
\* touched) entries in the order the history reports them, so at most
\* topFiles and at most total_files_changed of them, and total_files_changed
\* counts all the files of the commit.
C4_PositionalPrefix ==
    xpc = "returned" =>
        \A i \in 1..Len(memory) :
            LET entries == memory[i].key_files
                files == CommitOf(i).files
            IN  /\ Len(entries) = Min(top_files, Len(files))
                /\ Len(entries) <= top_files
                /\ Len(entries) <= memory[i].files_changed_count
                /\ memory[i].files_changed_count = Len(files)
                /\ \A j \in 1..Len(entries) :
                    /\ entries[j].name = files[j].name
                    /\ entries[j].insertions = files[j].insertions
                    /\ entries[j].deletions = files[j].deletions

\* a record of a commit that touched more files than topFiles, whose largest
\* change is not among the entries kept
C4_Witness ==
    /\ xpc = "returned"
    /\ \E i \in 1..Len(memory) :
        /\ memory[i].files_changed_count > top_files
        /\ Len(memory[i].key_files) = top_files
        /\ \E f \in 1..Len(CommitOf(i).files) :
            \A j \in 1..Len(memory[i].key_files) :
                CommitOf(i).files[f].insertions > memory[i].key_files[j].insertions

\* C5: for 0 <= k <= n the split puts exactly the last k records into the
\* detailed set and exactly the first n - k records into the summarized
\* set; k = 0 puts every record into the summarized set.
C5_SplitLastK ==
    (spc \in {"summarize", "build", "request", "done", "service_error"}
        /\ max_recent <= Len(memory)) =>
        /\ recent_memory = SubSeq(memory, Len(memory) - max_recent + 1, Len(memory))
        /\ older_memory = SubSeq(memory, 1, Len(memory) - max_recent)

\* C6: given an empty record sequence, generate_story never invokes the
\* text-generation service.
C6_NoCallOnEmptyMemory == memory = <<>> => service_calls = 0

\* the credential is not set, or is set to the empty string
CredentialAbsent == api_key = NoKey \/ api_key = <<>>

\* C7: without the credential generate_story ends in the configuration error
\* raised where the client is first needed: no prompt is assembled and no
\* request to the service is attempted, whatever the records.
C7_ConfigErrorBeforeAnyCall ==
    CredentialAbsent =>
        /\ spc \in {"start", "config_error"}
        /\ service_calls = 0
        /\ user_text = <<>>
        /\ recent_memory = <<>> /\ older_memory = <<>>

\* generate_story has raised the configuration error on a non-empty memory
C7_Witness ==
    /\ CredentialAbsent
    /\ spc = "config_error"
    /\ memory # <<>>

\* the location begins with the network-protocol prefix
HasProtocolPrefix(l) == Len(l) >= 4 /\ SubSeq(l, 1, 4) = <<"h","t","t","p">>

\* the cache held something at caller p's cache path when p's call began
CachedAtCall(p) == seen_at_call[p][local_path[p]].kind # "absent"

\* C8: in a series of calls made one after the other, a call with a remote
\* URL clones exactly when nothing exists at the URL's cache path when the
\* call is made, the clone precedes the opening of the cached copy, a cache
\* path that exists is opened without cloning, so no cache path is cloned
\* twice; a call with a local path never clones and leaves the cache alone.
C8_CloneIffNoCache ==
    LET p == SerialCaller IN
    /\ (pc[p] \notin {"idle", "check"} /\ HasProtocolPrefix(loc[p])) =>
        /\ (pc[p] = "clone" \/ log[p].cloned) <=> ~CachedAtCall(p)
        /\ (pc[p] = "open" \/ log[p].opened) =>
               (CachedAtCall(p) \/ log[p].clone_ok)
        /\ log[p].opened => cache[local_path[p]].kind = "repo"
    /\ (pc[p] # "idle" /\ ~HasProtocolPrefix(loc[p])) =>
        /\ ~log[p].cloned
        /\ cache = seen_at_call[p]
    /\ \A path \in CachePaths : clone_done[path] <= 1

\* a later call found the cache path cloned by an earlier call and returned
\* the cached copy without cloning
C8_Witness ==
    LET p == SerialCaller IN
    /\ pc[p] = "returned"
    /\ HasProtocolPrefix(loc[p])
    /\ CachedAtCall(p)
    /\ ~log[p].cloned
    /\ clone_done[local_path[p]] = 1
    /\ calls[p] >= 2

\* C9: calls against two different locations are independent: neither uses
\* the other's cache path, and each obtains the repository of its own
\* location.
C9_IndependentLocations ==
    /\ \A p, q \in Callers :
        (p # q /\ pc[p] # "idle" /\ pc[q] # "idle" /\ loc[p] # loc[q]) =>
            local_path[p] # local_path[q]
    /\ \A p \in Callers : pc[p] = "returned" => handle[p] = loc[p]

\* C10: the check and the clone are not atomic, so two concurrent calls with
\* the same URL can both see the cache path absent and both start a clone
\* (the witness); when no two calls overlap, a cache path has at most one
\* clone that did not fail, and exactly one once a call has returned it.
C10_SerializedClonesOnce ==
    ~overlapped =>
        \A path \in CachePaths :
            /\ clone_started[path] <= clone_failed[path] + 1
            /\ clone_done[path] <= 1
            /\ (\E p \in Callers : pc[p] = "returned" /\ local_path[p] = path) =>
                   clone_done[path] = 1

\* two concurrent calls with the same URL have both seen the cache path
\* absent and both started a clone into it
C10_Witness ==
    \E p, q \in Callers :
        /\ p # q
        /\ loc[p] = loc[q]
        /\ log[p].saw_absent /\ log[q].saw_absent
        /\ log[p].cloned /\ log[q].cloned
        /\ clone_started[local_path[p]] = 2

====
